---------------------------- MODULE Spec2Model ----------------------------
(***************************************************************************)
(* A model of picture_ingest_search.py: the image encoder                  *)
(* (process_and_encode_image), the ingestion loop (ingest_pictures), the   *)
(* search request (search_pictures) and the command-line entry point.      *)
(*                                                                         *)
(* Each of the four parts has its own specification (SpecEncode,           *)
(* SpecIngest, SpecSearch, SpecMain) over its own group of variables; the  *)
(* variables of the other parts stay at their initial values.              *)
(***************************************************************************)
EXTENDS Integers, Sequences, FiniteSets, TLC

(* -------------------------- bounds of the model ------------------------ *)
\* largest image width and height drawn for the encoder
MaxDim == 5
\* largest max_pixels drawn for the encoder
MaxPixelsArg == 6
\* largest max_bytes drawn for the encoder
MaxBytesArg == 3
\* largest byte size one JPEG encode may produce
MaxEncodedSize == 4
\* longest directory listing
MaxFiles == 3
\* number of ingestion runs against the same collection
MaxRuns == 2
\* largest limit drawn for a search
MaxLimit == 101
\* largest number of documents the store holds during a search
MaxStored == 3
\* largest number of words after the script name on the command line
MaxArgs == 3

VARIABLES
    \* ---- process_and_encode_image ----
    e_pc,          \* position: "open", "resize", "compress", "b64", "done", "raised"
    decodable,     \* whether Image.open can parse the file
    mode,          \* img.mode
    width,         \* img.size[0] as opened
    height,        \* img.size[1] as opened
    max_pixels,    \* argument
    max_bytes,     \* argument
    img_size,      \* <<w, h>> of the image currently bound to img
    resized,       \* whether line 38 ran
    quality,       \* JPEG quality of the next encode
    current_size,  \* output_buffer.tell() after the last encode (0: none yet)
    qualities,     \* history: the quality of every img.save so far, in order
    e_exc,         \* the exception that left the function ("" if none)
    payload,       \* the returned data URL, as [bytes, chars, size] (or NoPayload)
    \* ---- ingest_pictures ----
    i_pc,          \* "idle", "running", "returned", "raised"
    listing,       \* os.listdir(directory_path), a sequence of files
    idx,           \* position of the for loop in listing (1-based)
    collection,    \* the MongoDB collection: the sequence of inserted documents
    log,           \* the run's printed lines: <<"Indexed" | "Failed", file_name>>
    i_exc,         \* the exception that left ingest_pictures ("" if none)
    encoded,       \* history: file names passed to process_and_encode_image this run
    embedded,      \* history: file names sent to vo.multimodal_embed this run
    coll_at_start, \* history: collection when the run started
    collab_failed, \* history: "embed" / "insert" once that call failed this run
    runs,          \* number of runs started
    \* ---- search_pictures ----
    s_pc,          \* "call", "search", "returned", "raised"
    query_text,    \* argument
    limit,         \* argument
    stored,        \* number of indexed documents the store holds
    query_embedding, \* query_response.embeddings[0]
    pipeline,      \* the aggregation request sent (or NoPipeline)
    matches,       \* list(collection.aggregate(pipeline))
    s_exc,         \* the exception that left search_pictures ("" if none)
    \* ---- __main__ ----
    m_pc,          \* "start", "exited"
    argv,          \* sys.argv; argv[1] is the script, argv[2] is sys.argv[1]
    exit_code,     \* the process's exit status (-1 while running)
    calls,         \* the calls __main__ made to ingest_pictures / search_pictures
    stdout         \* what __main__ itself printed

encVars == <<e_pc, decodable, mode, width, height, max_pixels, max_bytes, img_size,
             resized, quality, current_size, qualities, e_exc, payload>>

ingVars == <<i_pc, listing, idx, collection, log, i_exc, encoded, embedded,
             coll_at_start, collab_failed, runs>>

srchVars == <<s_pc, query_text, limit, stored, query_embedding, pipeline, matches, s_exc>>

mainVars == <<m_pc, argv, exit_code, calls, stdout>>

vars == <<encVars, ingVars, srchVars, mainVars>>

NoPayload == [bytes |-> 0, chars |-> 0, size |-> <<0, 0>>]

(* ------------------------ process_and_encode_image --------------------- *)

\* floor(sqrt(n))
ISqrt(n) == CHOOSE r \in 0..n : r * r <= n /\ (r + 1) * (r + 1) > n

\* int(width * (max_pixels / (width*height)) ** 0.5): the truncation of
\* width * sqrt(max_pixels / (width*height)) = sqrt(width * max_pixels / height).
\* floor(sqrt(x)) = ISqrt(floor(x)) for every real x >= 0.  On the ranges drawn
\* here, and for the files of the ingestion model, the double-precision evaluation
\* of lines 35-37 gives exactly this value.  (At larger sizes rounding can lose a
\* unit where the exact product is an integer: 17 x 17 with max_pixels = 9 gives
\* 2 x 2, not 3 x 3.)
NewWidthCeil(w, h, mp) == ISqrt((w * mp) \div h) + 1
new_width(w, h, mp) == ISqrt((w * mp) \div h)

new_height(w, h, mp) == ISqrt((h * mp) \div w)

\* Image.resize rejects a target size with a dimension below 1 (ValueError)
ResizeRejects(nw, nh) == nw < 1 \/ nh < 1

\* the loop's exit test, line 57: current_size <= max_bytes * 0.7 or quality <= 20
\* (for the sizes drawn here the double max_bytes * 0.7 compares as 7 * max_bytes / 10)
LoopExitNoHeadroom(size, mb, q) == size <= mb \/ q <= 20
LoopExit(size, mb, q) == 10 * size <= 7 * mb \/ q <= 20

\* len(base64.b64encode(b)) for len(b) = n
B64Len(n) == 4 * ((n + 2) \div 3)

\* len("data:image/jpeg;base64,")
DataUrlPrefixLen == 23

EncodeArgs ==
    /\ e_pc = "open"
    /\ decodable \in BOOLEAN
    /\ mode \in {"RGB", "RGBA", "P"}
    /\ width \in 1..MaxDim
    /\ height \in 1..MaxDim
    /\ max_pixels \in 1..MaxPixelsArg
    /\ max_bytes \in 1..MaxBytesArg
    /\ img_size = <<0, 0>>
    /\ resized = FALSE
    /\ quality = 0
    /\ current_size = 0
    /\ qualities = <<>>
    /\ e_exc = ""
    /\ payload = NoPayload

\* line 29-31: Image.open; an unreadable file raises an OSError
OpenImage ==
    /\ e_pc = "open"
    /\ IF decodable
         THEN /\ e_pc' = "resize"
              /\ img_size' = <<width, height>>
              /\ e_exc' = e_exc
         ELSE /\ e_pc' = "raised"
              /\ e_exc' = "OSError"
              /\ img_size' = img_size
    /\ UNCHANGED <<decodable, mode, width, height, max_pixels, max_bytes, resized,
                   quality, current_size, qualities, payload>>
    /\ UNCHANGED <<ingVars, srchVars, mainVars>>

\* lines 32-47: the pixel limit, the conversion to RGB, quality = 95
ResizeStep ==
    /\ e_pc = "resize"
    /\ LET current_pixels == width * height
           nw == new_width(width, height, max_pixels)
           nh == new_height(width, height, max_pixels)
       IN  IF current_pixels > max_pixels
             THEN IF ResizeRejects(nw, nh)
                    THEN /\ e_pc' = "raised"
                         /\ e_exc' = "ValueError"
                         /\ UNCHANGED <<img_size, resized, mode, quality>>
                    ELSE /\ img_size' = <<nw, nh>>
                         /\ resized' = TRUE
                         /\ mode' = IF mode \in {"RGBA", "P"} THEN "RGB" ELSE mode
                         /\ quality' = 95
                         /\ e_pc' = "compress"
                         /\ e_exc' = e_exc
             ELSE /\ mode' = IF mode \in {"RGBA", "P"} THEN "RGB" ELSE mode
                  /\ quality' = 95
                  /\ e_pc' = "compress"
                  /\ UNCHANGED <<img_size, resized, e_exc>>
    /\ UNCHANGED <<decodable, width, height, max_pixels, max_bytes, current_size,
                   qualities, payload>>
    /\ UNCHANGED <<ingVars, srchVars, mainVars>>

\* lines 49-59: one iteration of the loop; the codec's output size for a given
\* image and quality is not decided by this program, so it is any size
EncodeStep ==
    /\ e_pc = "compress"
    /\ \E size \in 1..MaxEncodedSize :
          /\ current_size' = size
          /\ qualities' = Append(qualities, quality)
          /\ IF LoopExit(size, max_bytes, quality)
               THEN /\ e_pc' = "b64"
                    /\ quality' = quality
               ELSE /\ e_pc' = "compress"
                    /\ quality' = quality - 10
    /\ UNCHANGED <<decodable, mode, width, height, max_pixels, max_bytes, img_size,
                   resized, e_exc, payload>>
    /\ UNCHANGED <<ingVars, srchVars, mainVars>>

\* lines 61-62: the data URL of the last encode
ReturnPayload ==
    /\ e_pc = "b64"
    /\ payload' = [bytes |-> current_size,
                   chars |-> DataUrlPrefixLen + B64Len(current_size),
                   size  |-> img_size]
    /\ e_pc' = "done"
    /\ UNCHANGED <<decodable, mode, width, height, max_pixels, max_bytes, img_size,
                   resized, quality, current_size, qualities, e_exc>>
    /\ UNCHANGED <<ingVars, srchVars, mainVars>>

\* the encoder before any call
EncodeIdle ==
    /\ e_pc = "idle"
    /\ decodable = TRUE
    /\ mode = "RGB"
    /\ width = 1
    /\ height = 1
    /\ max_pixels = 1
    /\ max_bytes = 1
    /\ img_size = <<0, 0>>
    /\ resized = FALSE
    /\ quality = 0
    /\ current_size = 0
    /\ qualities = <<>>
    /\ e_exc = ""
    /\ payload = NoPayload

NextEncode == OpenImage \/ ResizeStep \/ EncodeStep \/ ReturnPayload

(* ----------------------------- ingest_pictures ------------------------- *)

\* process_and_encode_image's default max_pixels, the one ingest_pictures uses
DefaultMaxPixels == 15000000

\* IMAGES_DIR's default
IMAGES_DIR == "./my_pictures"

\* line 66
valid_extensions == {".jpg", ".jpeg", ".png", ".webp"}

\* str.lower() on the file name's suffix
Lower(e) ==
    CASE e = ".JPG"  -> ".jpg"
      [] e = ".JPEG" -> ".jpeg"
      [] e = ".PNG"  -> ".png"
      [] e = ".WEBP" -> ".webp"
      [] e = ".TXT"  -> ".txt"
      [] OTHER       -> e

\* The files a directory may hold: the name, its suffix, whether Pillow can read
\* it, and the image's size.  thin.webp (1 x 15,000,001) is over the pixel limit.
Files ==
    { [file_name |-> "a.JPG",     ext |-> ".JPG",  decodable |-> TRUE,  size |-> <<4000, 3000>>],
      [file_name |-> "c.jpeg",    ext |-> ".jpeg", decodable |-> TRUE,  size |-> <<640, 480>>],
      [file_name |-> "b.png",     ext |-> ".png",  decodable |-> FALSE, size |-> <<0, 0>>],
      [file_name |-> "notes.txt", ext |-> ".txt",  decodable |-> FALSE, size |-> <<0, 0>>],
      [file_name |-> "thin.webp", ext |-> ".webp", decodable |-> TRUE,  size |-> <<1, 15000001>>] }

\* a directory listing names each file once
Listings ==
    { l \in UNION { [1..k -> Files] : k \in 0..MaxFiles } :
        \A i, j \in 1..Len(l) : i # j => l[i].file_name # l[j].file_name }

\* line 69
Eligible(f) == Lower(f.ext) \in valid_extensions

\* How process_and_encode_image(image_path) ends for file f (lines 29-62 with the
\* default limits): "OSError", "ValueError" or "ok" (a payload is returned; the
\* compression loop always ends).
ProcessOutcome(f) ==
    IF ~f.decodable THEN "OSError"
    ELSE IF /\ f.size[1] * f.size[2] > DefaultMaxPixels
            /\ ResizeRejects(new_width(f.size[1], f.size[2], DefaultMaxPixels),
                             new_height(f.size[1], f.size[2], DefaultMaxPixels))
         THEN "ValueError"
         ELSE "ok"

\* line 100: except OSError
CaughtAny(exc) == TRUE
Caught(exc) == exc = "OSError"

\* lines 93-97: the inserted document
Doc(f) == [file_name |-> f.file_name,
           embedding |-> <<"document", f.file_name>>,
           metadata  |-> [path |-> <<IMAGES_DIR, f.file_name>>]]

\* collection.insert_one(doc)
ReplaceOneUpsert(coll, doc) ==
    IF \E i \in 1..Len(coll) : coll[i].file_name = doc.file_name
      THEN [i \in 1..Len(coll) |-> IF coll[i].file_name = doc.file_name THEN doc ELSE coll[i]]
      ELSE Append(coll, doc)
InsertOne(coll, doc) == Append(coll, doc)

IngestIdle ==
    /\ i_pc = "idle"
    /\ listing = <<>>
    /\ idx = 0
    /\ collection = <<>>
    /\ log = <<>>
    /\ i_exc = ""
    /\ encoded = <<>>
    /\ embedded = <<>>
    /\ coll_at_start = <<>>
    /\ collab_failed = ""
    /\ runs = 0

\* a call of ingest_pictures(IMAGES_DIR): line 68's os.listdir
StartRun ==
    /\ i_pc \in {"idle", "returned", "raised"}
    /\ runs < MaxRuns
    /\ listing' \in Listings
    /\ i_pc' = "running"
    /\ idx' = 1
    /\ log' = <<>>
    /\ i_exc' = ""
    /\ encoded' = <<>>
    /\ embedded' = <<>>
    /\ coll_at_start' = collection
    /\ collab_failed' = ""
    /\ runs' = runs + 1
    /\ UNCHANGED <<collection, encVars, srchVars, mainVars>>

\* an exception exc raised inside the try block while the loop is at listing[idx]
Raise(exc) ==
    IF Caught(exc)
      THEN /\ log' = Append(log, <<"Failed", listing[idx].file_name>>)
           /\ idx' = idx + 1
           /\ UNCHANGED <<i_pc, i_exc>>
      ELSE /\ i_pc' = "raised"
           /\ i_exc' = exc
           /\ UNCHANGED <<log, idx>>

\* line 69 false: the file is passed over
IterSkip ==
    /\ i_pc = "running"
    /\ idx <= Len(listing)
    /\ ~Eligible(listing[idx])
    /\ idx' = idx + 1
    /\ UNCHANGED <<i_pc, listing, collection, log, i_exc, encoded, embedded,
                   coll_at_start, collab_failed, runs>>
    /\ UNCHANGED <<encVars, srchVars, mainVars>>

\* line 74 raises
IterEncodeRaises ==
    /\ i_pc = "running"
    /\ idx <= Len(listing)
    /\ Eligible(listing[idx])
    /\ ProcessOutcome(listing[idx]) # "ok"
    /\ encoded' = Append(encoded, listing[idx].file_name)
    /\ Raise(ProcessOutcome(listing[idx]))
    /\ UNCHANGED <<listing, collection, embedded, coll_at_start, collab_failed, runs>>
    /\ UNCHANGED <<encVars, srchVars, mainVars>>

\* line 85 raises: the embedding service's own error (a voyageai.error.VoyageError)
IterEmbedRaises ==
    /\ i_pc = "running"
    /\ idx <= Len(listing)
    /\ Eligible(listing[idx])
    /\ ProcessOutcome(listing[idx]) = "ok"
    /\ encoded' = Append(encoded, listing[idx].file_name)
    /\ embedded' = Append(embedded, listing[idx].file_name)
    /\ collab_failed' = "embed"
    /\ Raise("VoyageError")
    /\ UNCHANGED <<listing, collection, coll_at_start, runs>>
    /\ UNCHANGED <<encVars, srchVars, mainVars>>

\* line 93 raises: the store's own error (a pymongo.errors.PyMongoError)
IterInsertRaises ==
    /\ i_pc = "running"
    /\ idx <= Len(listing)
    /\ Eligible(listing[idx])
    /\ ProcessOutcome(listing[idx]) = "ok"
    /\ encoded' = Append(encoded, listing[idx].file_name)
    /\ embedded' = Append(embedded, listing[idx].file_name)
    /\ collab_failed' = "insert"
    /\ Raise("PyMongoError")
    /\ UNCHANGED <<listing, collection, coll_at_start, runs>>
    /\ UNCHANGED <<encVars, srchVars, mainVars>>

\* lines 74-98 without an exception
IterIndexed ==
    /\ i_pc = "running"
    /\ idx <= Len(listing)
    /\ Eligible(listing[idx])
    /\ ProcessOutcome(listing[idx]) = "ok"
    /\ encoded' = Append(encoded, listing[idx].file_name)
    /\ embedded' = Append(embedded, listing[idx].file_name)
    /\ collection' = InsertOne(collection, Doc(listing[idx]))
    /\ log' = Append(log, <<"Indexed", listing[idx].file_name>>)
    /\ idx' = idx + 1
    /\ UNCHANGED <<i_pc, listing, i_exc, coll_at_start, collab_failed, runs>>
    /\ UNCHANGED <<encVars, srchVars, mainVars>>

\* the listing is exhausted: ingest_pictures returns
ReturnRun ==
    /\ i_pc = "running"
    /\ idx > Len(listing)
    /\ i_pc' = "returned"
    /\ UNCHANGED <<listing, idx, collection, log, i_exc, encoded, embedded,
                   coll_at_start, collab_failed, runs>>
    /\ UNCHANGED <<encVars, srchVars, mainVars>>

NextIngest ==
    \/ StartRun
    \/ IterSkip
    \/ IterEncodeRaises
    \/ IterEmbedRaises
    \/ IterInsertRaises
    \/ IterIndexed
    \/ ReturnRun

(* ----------------------------- search_pictures ------------------------- *)

\* line 124
numCandidates == 100

NoPipeline == [index |-> "", path |-> "", queryVector |-> <<>>, numCandidates |-> 0, limit |-> 0]

Min(a, b) == IF a <= b THEN a ELSE b

SearchIdle ==
    /\ s_pc = "idle"
    /\ query_text = ""
    /\ limit = 0
    /\ stored = 0
    /\ query_embedding = <<>>
    /\ pipeline = NoPipeline
    /\ matches = <<>>
    /\ s_exc = ""

\* a call search_pictures(query_text, limit) against a store holding `stored` documents
SearchArgs ==
    /\ s_pc = "call"
    /\ query_text \in {"red car", "dog"}
    /\ limit \in 1..MaxLimit
    /\ stored \in 0..MaxStored
    /\ query_embedding = <<>>
    /\ pipeline = NoPipeline
    /\ matches = <<>>
    /\ s_exc = ""

\* lines 110-115: the query embedding
EmbedQuery ==
    /\ s_pc = "call"
    /\ query_embedding' = <<"query", query_text>>
    /\ s_pc' = "search"
    /\ UNCHANGED <<query_text, limit, stored, pipeline, matches, s_exc>>
    /\ UNCHANGED <<encVars, ingVars, mainVars>>

\* line 110 raises
EmbedQueryRaises ==
    /\ s_pc = "call"
    /\ s_pc' = "raised"
    /\ s_exc' = "VoyageError"
    /\ UNCHANGED <<query_text, limit, stored, query_embedding, pipeline, matches>>
    /\ UNCHANGED <<encVars, ingVars, mainVars>>

\* lines 118-134: the $vectorSearch stage of the request
VectorSearchStage(qe, lim) ==
    [index |-> "default", path |-> "embedding", queryVector |-> qe,
     numCandidates |-> numCandidates, limit |-> lim]

\* lines 118-141: the request is sent and the store answers with its ranking,
\* at most `limit` of the candidates it examined
Aggregate ==
    /\ s_pc = "search"
    /\ pipeline' = VectorSearchStage(query_embedding, limit)
    /\ \E k \in 0..Min(Min(limit, numCandidates), stored) :
          matches' = [r \in 1..k |-> [file_name |-> r, score |-> k - r]]
    /\ s_pc' = "returned"
    /\ UNCHANGED <<query_text, limit, stored, query_embedding, s_exc>>
    /\ UNCHANGED <<encVars, ingVars, mainVars>>

\* line 136 raises
AggregateRaises ==
    /\ s_pc = "search"
    /\ pipeline' = VectorSearchStage(query_embedding, limit)
    /\ s_pc' = "raised"
    /\ s_exc' = "PyMongoError"
    /\ UNCHANGED <<query_text, limit, stored, query_embedding, matches>>
    /\ UNCHANGED <<encVars, ingVars, mainVars>>

NextSearch == EmbedQuery \/ EmbedQueryRaises \/ Aggregate \/ AggregateRaises

(* --------------------------------- __main__ ---------------------------- *)

\* the words a command line is made of
Words == {"ingest", "INGEST", "search", "Search", "delete", "red", "car"}

\* str.lower() on a command-line word
LowerWord(w) ==
    CASE w = "INGEST" -> "ingest"
      [] w = "Search" -> "search"
      [] OTHER        -> w

MainIdle ==
    /\ m_pc = "idle"
    /\ argv = <<>>
    /\ exit_code = -1
    /\ calls = <<>>
    /\ stdout = <<>>

\* the interpreter starts the script with sys.argv = [script, words...]
MainArgs ==
    /\ m_pc = "start"
    /\ argv \in { <<"picture_ingest_search.py">> \o a :
                    a \in UNION { [1..k -> Words] : k \in 0..MaxArgs } }
    /\ exit_code = -1
    /\ calls = <<>>
    /\ stdout = <<>>

\* lines 144-146
MainNoCommand ==
    /\ m_pc = "start"
    /\ Len(argv) < 2
    /\ stdout' = Append(stdout, "Usage")
    /\ exit_code' = 1
    /\ m_pc' = "exited"
    /\ UNCHANGED <<argv, calls>>
    /\ UNCHANGED <<encVars, ingVars, srchVars>>

\* lines 150-153; an exception leaving ingest_pictures ends the process with 1
MainIngest ==
    /\ m_pc = "start"
    /\ Len(argv) >= 2
    /\ LowerWord(argv[2]) = "ingest"
    /\ stdout' = Append(stdout, "Starting ingestion")
    /\ calls' = Append(calls, <<"ingest_pictures", IMAGES_DIR>>)
    /\ exit_code' \in {0, 1}
    /\ m_pc' = "exited"
    /\ UNCHANGED argv
    /\ UNCHANGED <<encVars, ingVars, srchVars>>

\* lines 155-160
MainSearchNoTerm ==
    /\ m_pc = "start"
    /\ Len(argv) >= 2
    /\ LowerWord(argv[2]) = "search"
    /\ Len(argv) < 3
    /\ stdout' = Append(stdout, "Error: Please provide a search term")
    /\ exit_code' = 1
    /\ m_pc' = "exited"
    /\ UNCHANGED <<argv, calls>>
    /\ UNCHANGED <<encVars, ingVars, srchVars>>

\* lines 162-168; " ".join(sys.argv[2:]) is kept as the sequence of its words;
\* an exception leaving search_pictures or the viewer ends the process with 1
MainSearch ==
    /\ m_pc = "start"
    /\ Len(argv) >= 2
    /\ LowerWord(argv[2]) = "search"
    /\ Len(argv) >= 3
    /\ calls' = Append(calls, <<"search_pictures", SubSeq(argv, 3, Len(argv)), 1>>)
    /\ exit_code' \in {0, 1}
    /\ m_pc' = "exited"
    /\ UNCHANGED <<argv, stdout>>
    /\ UNCHANGED <<encVars, ingVars, srchVars>>

\* lines 170-171: the message is printed and the script ends
MainUnknown ==
    /\ m_pc = "start"
    /\ Len(argv) >= 2
    /\ LowerWord(argv[2]) \notin {"ingest", "search"}
    /\ stdout' = Append(stdout, "Unknown command")
    /\ exit_code' = 0
    /\ m_pc' = "exited"
    /\ UNCHANGED <<argv, calls>>
    /\ UNCHANGED <<encVars, ingVars, srchVars>>

NextMain == MainNoCommand \/ MainIngest \/ MainSearchNoTerm \/ MainSearch \/ MainUnknown

(* ------------------------------ specifications ------------------------- *)

InitEncode == EncodeArgs /\ IngestIdle /\ SearchIdle /\ MainIdle

SpecEncode == InitEncode /\ [][NextEncode]_vars

InitIngest == EncodeIdle /\ IngestIdle /\ SearchIdle /\ MainIdle

SpecIngest == InitIngest /\ [][NextIngest]_vars

InitSearch == EncodeIdle /\ IngestIdle /\ SearchArgs /\ MainIdle

SpecSearch == InitSearch /\ [][NextSearch]_vars

InitMain == EncodeIdle /\ IngestIdle /\ SearchIdle /\ MainArgs

SpecMain == InitMain /\ [][NextMain]_vars

(* --------------------------------- claims ------------------------------ *)

\* C1: the quality of successive encodes never increases and no encode is made
\* at a quality below 20.  (Violated: from 25 the loop steps to 15 and encodes.)
C1_QualityNonIncreasingAndAtLeast20 ==
    \A i \in 1..Len(qualities) :
        /\ qualities[i] >= 20
        /\ i > 1 => qualities[i] <= qualities[i - 1]

\* C2: the loop makes at most 8 encodes before the payload is returned.
\* (Violated: 95, 85, ..., 25, 15 is nine encodes.)
C2_AtMostEightEncodes ==
    /\ Len(qualities) <= 8
    /\ e_pc = "done" => payload # NoPayload

\* the eligible files of l that Pillow can decode / cannot decode
DecodedOk(l) == { j \in 1..Len(l) : Eligible(l[j]) /\ l[j].decodable }
DecodeFails(l) == { j \in 1..Len(l) : Eligible(l[j]) /\ ~l[j].decodable }
IsFailedLine(e) == e[1] = "Failed"

\* C3: once a run has ended without a failed embedding or store call, it has
\* inserted one record per eligible file that decoded and reported one failure
\* per eligible file that did not.  (Violated: a decoded file whose resize target
\* has a zero dimension ends the run with a ValueError, see C10.)
C3_OneRecordPerDecodedFile ==
    (i_pc \in {"returned", "raised"} /\ collab_failed = "") =>
        /\ Len(collection) - Len(coll_at_start) = Cardinality(DecodedOk(listing))
        /\ Len(SelectSeq(log, IsFailedLine)) = Cardinality(DecodeFails(listing))

\* the documents of the files among l[1..k] that are indexed when nothing fails
IsIndexable(f) == Eligible(f) /\ ProcessOutcome(f) = "ok"
DocsOf(l, k) ==
    LET ok == SelectSeq(SubSeq(l, 1, k), IsIndexable)
    IN  [j \in 1..Len(ok) |-> Doc(ok[j])]
IsEligible(f) == Eligible(f)
NamesOf(l, k) ==
    LET el == SelectSeq(SubSeq(l, 1, k), IsEligible)
    IN  [j \in 1..Len(el) |-> el[j].file_name]

\* C4: once the embedding call or the insert has failed for listing[idx], the run
\* has ended with that exception, no file after listing[idx] has been encoded or
\* embedded, and the collection is what it was at the start of the run followed
\* by the records of the files indexed before listing[idx].
C4_CollaboratorFailureIsFatal ==
    collab_failed # "" =>
        /\ i_pc = "raised"
        /\ i_exc = (IF collab_failed = "embed" THEN "VoyageError" ELSE "PyMongoError")
        /\ idx \in 1..Len(listing)
        /\ encoded = NamesOf(listing, idx)
        /\ Len(embedded) <= Len(encoded)
        /\ embedded[Len(embedded)] = listing[idx].file_name
        /\ collection = coll_at_start \o DocsOf(listing, idx - 1)

\* C4's case: the insert failed after an earlier file of the run was indexed and
\* with an eligible file still to come
C4_Witness ==
    /\ collab_failed = "insert"
    /\ Len(collection) > Len(coll_at_start)
    /\ idx < Len(listing)
    /\ Eligible(listing[idx + 1])

\* C5: when width*height > max_pixels the computed target size has at most
\* max_pixels pixels, and so has every payload returned.
C5_PixelCountWithinLimit ==
    /\ (e_pc # "idle" /\ width * height > max_pixels) =>
          new_width(width, height, max_pixels) * new_height(width, height, max_pixels)
              <= max_pixels
    /\ e_pc \in {"compress", "b64", "done"} => img_size[1] * img_size[2] <= max_pixels
    /\ e_pc = "done" => payload.size[1] * payload.size[2] <= max_pixels

\* C5's case: a payload of a resized image that uses the whole pixel budget
C5_Witness ==
    /\ e_pc = "done"
    /\ resized
    /\ payload.size # <<width, height>>
    /\ payload.size[1] * payload.size[2] = max_pixels
    /\ max_pixels > 1

C7_InsertOnlyAppends ==
    [][ IF Len(log') = Len(log) + 1 /\ log'[Len(log')][1] = "Indexed"
          THEN /\ Len(collection') = Len(collection) + 1
               /\ SubSeq(collection', 1, Len(collection)) = collection
               /\ collection'[Len(collection')].file_name = log'[Len(log')][2]
          ELSE collection' = collection ]_vars

\* C7's case: the same file name ingested twice is two records
C7_Witness ==
    \E i, j \in 1..Len(collection) :
        /\ i < j
        /\ collection[i].file_name = collection[j].file_name
        /\ runs = 2

\* sys.argv is missing the command, or the search term, or names no command
InvalidArguments(a) ==
    \/ Len(a) < 2
    \/ (LowerWord(a[2]) = "search" /\ Len(a) < 3)
    \/ LowerWord(a[2]) \notin {"ingest", "search"}

\* C8: with missing or invalid arguments the process exits with 1 and calls neither
\* ingest_pictures nor search_pictures.  (Violated: an unknown command exits 0.)
C8_ExitOneOnInvalidArguments ==
    (m_pc = "exited" /\ InvalidArguments(argv)) =>
        /\ exit_code = 1
        /\ calls = <<>>

\* C9: the request's numCandidates is larger than its limit.
\* (Violated: numCandidates is always 100, so not from limit = 100 on.)
C9_CandidatePoolLargerThanLimit ==
    pipeline # NoPipeline => pipeline.numCandidates > pipeline.limit

\* C10: whenever the resize runs, both target dimensions are at least 1 and the
\* encoder does not end with an error other than an OSError.
\* (Violated: width 1, height 3, max_pixels 2 gives new_width = 0.)
C10_ResizeTargetNonEmpty ==
    (decodable /\ e_pc \notin {"idle", "open", "resize"} /\ width * height > max_pixels) =>
        /\ new_width(width, height, max_pixels) >= 1
        /\ new_height(width, height, max_pixels) >= 1
        /\ e_exc # "ValueError"

=============================================================================
